---------------------------- MODULE Spec2Model ----------------------------
(***************************************************************************)
(* Model of the diagnostic-driven patching scripts of the repository:      *)
(*   src/tools/fix_ts7006.py              (tool "fix_ts7006")              *)
(*   src/fix-implicit-any.py              (tool "fix-implicit-any")        *)
(*   src/tools/scripts/fix-factory-params.py (tool "fix-factory-params")   *)
(*   src/tools/analyze-errors.py          (tool "analyze-errors")          *)
(*   src/copy-docs.py                     (the mirroring pass)             *)
(* Texts are TLA+ strings handled character by character; the regular      *)
(* expressions of the scripts are evaluated as Python's re module          *)
(* evaluates them (leftmost match, greedy/lazy quantifiers, look-aheads).  *)
(***************************************************************************)
EXTENDS Integers, Sequences, FiniteSets, TLC

VARIABLES
    tool,            \* which script is being run
    \* ---- diagnostic parsing (all three tsc-driven scripts)
    stderr_lines,    \* result.stderr.split('\n')
    pidx,            \* number of stderr lines already consumed by the parse loop
    file_errors,     \* fix_ts7006.py: dict path -> list of {line, col, param}
    errors,          \* fix-implicit-any.py: dict path -> list of param names
    errors_by_file,  \* analyze-errors.py: dict path -> dict code -> count
    total_by_file,   \* analyze-errors.py: dict path -> count
    outcome,         \* history: per consumed line, the record it produced (or none)
    \* ---- mirroring pass (copy-docs.py)
    tree,            \* the files under root: path -> [data, meta], or NoFile
    tree0,           \* history: the tree before the first pass
    pending,         \* paths root.rglob("*.js") has still to yield in this pass
    copied,          \* the counter of copy-docs.py
    pass,            \* 1 = first invocation, 2 = the invocation after it
    copy_pc,         \* "loop" | "done" (total printed)
    \* ---- patching (fix_ts7006.py, fix-implicit-any.py, fix-factory-params.py)
    disk,            \* path -> text of the file
    disk0,           \* history: the files before the first run
    diagnostics,     \* history: path -> the TS7006 diagnostics tsc reported, in order
    files,           \* the paths the fix loop goes through, in its order
    todo,            \* the part of files the loop has not reached yet
    pc,              \* "fix" | "done" | "crashed" (uncaught exception)
    run,             \* 1 = first invocation, 2 = the same diagnostics applied again
    printed,         \* fix_ts7006.py: number of "  Line n: param" messages
    total_fixed,     \* fix-implicit-any.py: total_fixed
    fixed_count,     \* fix-factory-params.py: fixed_count
    opened_w,        \* the paths opened for writing in this run
    io_failed,       \* history: the paths whose open() raised
    unreadable,      \* environment: paths whose open(.., 'r') raises
    unwritable       \* environment: paths whose open(.., 'w') raises

parseVars == <<stderr_lines, pidx, file_errors, errors, errors_by_file, total_by_file, outcome>>
copyVars == <<tree, tree0, pending, copied, pass, copy_pc>>
patchVars == <<disk, disk0, diagnostics, files, todo, pc, run, printed, total_fixed,
               fixed_count, opened_w, io_failed, unreadable, unwritable>>
vars == <<tool, parseVars, copyVars, patchVars>>

(***************************************************************************)
(* Characters and strings                                                  *)
(***************************************************************************)
Ch(s, i) == SubSeq(s, i, i)

Digits == {"0", "1", "2", "3", "4", "5", "6", "7", "8", "9"}

\* \w of Python's re (str patterns): letters, digits and the underscore.
WordChars ==
    {"a", "b", "c", "d", "e", "f", "g", "h", "i", "j", "k", "l", "m",
     "n", "o", "p", "q", "r", "s", "t", "u", "v", "w", "x", "y", "z",
     "A", "B", "C", "D", "E", "F", "G", "H", "I", "J", "K", "L", "M",
     "N", "O", "P", "Q", "R", "S", "T", "U", "V", "W", "X", "Y", "Z",
     "_"} \cup Digits

\* \s of Python's re.
SpaceChars == {" ", "\t", "\n", "\r", "\f"}

IsWord(s, i) == i >= 1 /\ i <= Len(s) /\ Ch(s, i) \in WordChars

\* lit occurs in s starting at index i
MatchAt(s, i, lit) ==
    /\ i >= 1
    /\ i + Len(lit) - 1 <= Len(s)
    /\ SubSeq(s, i, i + Len(lit) - 1) = lit

\* `sub in s` of Python
Contains(s, sub) == \E i \in 1..(Len(s) - Len(sub) + 1) : MatchAt(s, i, sub)

\* index of the first character at or after i that is not in cs (Len(s)+1 if none):
\* the end of a greedy run  [cs]*  starting at i
RECURSIVE RunEnd(_, _, _)
RunEnd(s, i, cs) ==
    IF i <= Len(s) /\ Ch(s, i) \in cs THEN RunEnd(s, i + 1, cs) ELSE i

\* index of the first character at or after i that is in cs (Len(s)+1 if none):
\* the end of a greedy run  [^cs]*  starting at i
RECURSIVE RunEndNot(_, _, _)
RunEndNot(s, i, cs) ==
    IF i <= Len(s) /\ Ch(s, i) \notin cs THEN RunEndNot(s, i + 1, cs) ELSE i

\* \b at the gap before index i (1 <= i <= Len(s)+1)
WordBoundary(s, i) == IsWord(s, i - 1) # IsWord(s, i)

Min(S) == CHOOSE m \in S : \A n \in S : m <= n
Max(S) == CHOOSE m \in S : \A n \in S : m >= n

RECURSIVE Concat(_)
Concat(ss) == IF ss = <<>> THEN "" ELSE Head(ss) \o Concat(Tail(ss))

DigitVal(c) ==
    CASE c = "0" -> 0 [] c = "1" -> 1 [] c = "2" -> 2 [] c = "3" -> 3 [] c = "4" -> 4
      [] c = "5" -> 5 [] c = "6" -> 6 [] c = "7" -> 7 [] c = "8" -> 8 [] c = "9" -> 9

\* int(s) for a string of decimal digits
RECURSIVE ToInt(_)
ToInt(s) ==
    IF Len(s) = 0 THEN 0
    ELSE 10 * ToInt(SubSeq(s, 1, Len(s) - 1)) + DigitVal(Ch(s, Len(s)))

(***************************************************************************)
(* A regular expression without alternation is a sequence of items; every  *)
(* quantified item of the scripts' patterns is followed by an item that    *)
(* cannot start with a character of the quantified class, so the greedy    *)
(* run is the only way the quantifier can match and no backtracking is     *)
(* lost.  MatchSeq gives the index after the match, or 0 when it fails.    *)
(*   [k |-> "lit", s |-> str]    the literal str                           *)
(*   [k |-> "ws"]                \s*                                       *)
(*   [k |-> "wb"]                \b                                        *)
(*   [k |-> "set", cs |-> S]     one character of S                        *)
(*   [k |-> "digits"]            \d+                                       *)
(*   [k |-> "not", p |-> pat]    (?!pat)                                   *)
(*   [k |-> "look", p |-> pat]   (?=pat)                                   *)
(***************************************************************************)
Lit(str) == [k |-> "lit", s |-> str, cs |-> {}, p |-> <<>>]
Ws == [k |-> "ws", s |-> "", cs |-> {}, p |-> <<>>]
Wb == [k |-> "wb", s |-> "", cs |-> {}, p |-> <<>>]
OneOf(S) == [k |-> "set", s |-> "", cs |-> S, p |-> <<>>]
DigitRun == [k |-> "digits", s |-> "", cs |-> {}, p |-> <<>>]
NotAhead(pat) == [k |-> "not", s |-> "", cs |-> {}, p |-> pat]
Ahead(pat) == [k |-> "look", s |-> "", cs |-> {}, p |-> pat]

RECURSIVE MatchSeq(_, _, _)
MatchSeq(s, i, pat) ==
    IF Len(pat) = 0 THEN i
    ELSE LET it == Head(pat)
             rest == Tail(pat)
         IN CASE it.k = "lit" ->
                   IF MatchAt(s, i, it.s) THEN MatchSeq(s, i + Len(it.s), rest) ELSE 0
              [] it.k = "ws" -> MatchSeq(s, RunEnd(s, i, SpaceChars), rest)
              [] it.k = "wb" ->
                   IF WordBoundary(s, i) THEN MatchSeq(s, i, rest) ELSE 0
              [] it.k = "set" ->
                   IF i <= Len(s) /\ Ch(s, i) \in it.cs
                   THEN MatchSeq(s, i + 1, rest) ELSE 0
              [] it.k = "digits" ->
                   LET e == RunEnd(s, i, Digits)
                   IN IF e > i THEN MatchSeq(s, e, rest) ELSE 0
              [] it.k = "not" ->
                   IF MatchSeq(s, i, it.p) = 0 THEN MatchSeq(s, i, rest) ELSE 0
              [] it.k = "look" ->
                   IF MatchSeq(s, i, it.p) # 0 THEN MatchSeq(s, i, rest) ELSE 0

(***************************************************************************)
(* Diagnostic parsing                                                      *)
(***************************************************************************)
NoRecord == [ok |-> FALSE, file |-> "", line |-> 0, col |-> 0, ident |-> ""]

\* \((\d+),(\d+)\): error TS7006: Parameter \'   (shared by both fixers)
HeaderTS7006 == <<Lit("("), DigitRun, Lit(","), DigitRun, Lit("): error TS7006: Parameter '")>>

TailTS7006 == "' implicitly has an 'any' type."

\* The record fix_ts7006.py's pattern gives with group 1 ending at index i:
\*   ^(.+?)\((\d+),(\d+)\): error TS7006: Parameter \'(.+?)\' implicitly has an \'any\' type\.$
\* The tail is anchored by $, so the lazy group 4 can only end where the tail
\* that closes the line starts; "." matches no newline.
TS7006_MatchWithPath(error, i) ==
    LET h == MatchSeq(error, i + 1, HeaderTS7006)
        t == Len(error) - Len(TailTS7006) + 1
        d1 == RunEnd(error, i + 2, Digits)
        d2 == RunEnd(error, d1 + 1, Digits)
    IN IF /\ h # 0
          /\ t > h
          /\ MatchAt(error, t, TailTS7006)
          /\ ~Contains(SubSeq(error, 1, i), "\n")
          /\ ~Contains(SubSeq(error, h, t - 1), "\n")
       THEN [ok |-> TRUE,
             file |-> SubSeq(error, 1, i),
             line |-> ToInt(SubSeq(error, i + 2, d1 - 1)),
             col |-> ToInt(SubSeq(error, d1 + 1, d2 - 1)),
             ident |-> SubSeq(error, h, t - 1)]
       ELSE NoRecord

\* a greedy group 1, (.+) for (.+?): the longest prefix after which the rest matches
TS7006_PathEnd_Greedy(cands) == Max(cands)

\* group 1 is lazy: the shortest non-empty prefix after which the rest matches
TS7006_PathEnd(cands) == Min(cands)

\* re.match(...) of fix_ts7006.py on one line
TS7006_Match(error) ==
    LET cands == {i \in 1..Len(error) : TS7006_MatchWithPath(error, i).ok}
    IN IF cands = {} THEN NoRecord
       ELSE TS7006_MatchWithPath(error, TS7006_PathEnd(cands))

\* the line filter of fix_ts7006.py, then the match
TS7006_Parse(line) ==
    IF Contains(line, "error TS7006") THEN TS7006_Match(line) ELSE NoRecord

\* re.match(r'([^(]+)\(\d+,\d+\): error TS7006: Parameter \'([^\']+)\' implicitly', line)
ImplicitAny_Match(line) ==
    LET i == RunEndNot(line, 1, {"("})
        h == MatchSeq(line, i, HeaderTS7006)
        q == RunEndNot(line, h, {"'"})
    IN IF /\ i > 1
          /\ h # 0
          /\ q > h
          /\ MatchAt(line, q, "' implicitly")
       THEN [ok |-> TRUE, file |-> SubSeq(line, 1, i - 1), line |-> 0, col |-> 0,
             ident |-> SubSeq(line, h, q - 1)]
       ELSE NoRecord

\* the two substring tests of get_implicit_any_errors, then the match
ImplicitAny_Parse(line) ==
    IF Contains(line, "error TS7006") /\ Contains(line, "implicitly has an 'any' type")
    THEN ImplicitAny_Match(line)
    ELSE NoRecord

\* re.match(r'^([^(]+)\(\d+,\d+\): error (TS\d+):', line); ident holds the error code
Analyze_Parse(line) ==
    LET i == RunEndNot(line, 1, {"("})
        c == MatchSeq(line, i, <<Lit("("), DigitRun, Lit(","), DigitRun, Lit("): error ")>>)
        e == MatchSeq(line, c, <<Lit("TS"), DigitRun>>)
    IN IF i > 1 /\ c # 0 /\ e # 0 /\ MatchAt(line, e, ":")
       THEN [ok |-> TRUE, file |-> SubSeq(line, 1, i - 1), line |-> 0, col |-> 0,
             ident |-> SubSeq(line, c, e - 1)]
       ELSE NoRecord

\* d[k] of a defaultdict(list) / dict with the `not in` test: the list so far
ListAt(d, k) == IF k \in DOMAIN d THEN d[k] ELSE <<>>

\* d[k].append(v)
DictAppend(d, k, v) ==
    [p \in DOMAIN d \cup {k} |-> IF p = k THEN Append(ListAt(d, k), v) ELSE d[p]]

\* d[k] of a defaultdict(int)
CountAt(d, k) == IF k \in DOMAIN d THEN d[k] ELSE 0

\* d[k] += 1
DictIncr(d, k) ==
    [p \in DOMAIN d \cup {k} |-> IF p = k THEN CountAt(d, k) + 1 ELSE d[p]]

EmptyDict == <<>>

(***************************************************************************)
(* Inputs of the parsing specification: stderr lines assembled from the    *)
(* pieces of tsc's diagnostics, in any order and number up to MaxChunks.   *)
(***************************************************************************)
MaxChunks == 4

DiagChunks ==
    {"a", "(b)", "(12,3): error TS7006: Parameter '", "(12,3): error TS2322: Parameter '",
     "x' implicitly has an 'any' type."}

ChunkTexts(chunks, n) == {Concat(cs) : cs \in UNION {[1..m -> chunks] : m \in 0..n}}

DiagLines == ChunkTexts(DiagChunks, MaxChunks)

WellFormedLine == "b(4,5): error TS7006: Parameter 'y' implicitly has an 'any' type."

ParseTools == {"fix_ts7006", "fix-implicit-any", "analyze-errors"}

CopyIdle ==
    /\ tree = <<>>
    /\ tree0 = <<>>
    /\ pending = {}
    /\ copied = 0
    /\ pass = 0
    /\ copy_pc = "idle"

PatchIdle ==
    /\ disk = <<>>
    /\ disk0 = <<>>
    /\ diagnostics = <<>>
    /\ files = <<>>
    /\ todo = <<>>
    /\ pc = "idle"
    /\ run = 0
    /\ printed = 0
    /\ total_fixed = 0
    /\ fixed_count = 0
    /\ opened_w = {}
    /\ io_failed = {}
    /\ unreadable = {}
    /\ unwritable = {}

ParseIdle ==
    /\ stderr_lines = <<>>
    /\ pidx = 0
    /\ file_errors = EmptyDict
    /\ errors = EmptyDict
    /\ errors_by_file = EmptyDict
    /\ total_by_file = EmptyDict
    /\ outcome = <<>>

InitParse ==
    /\ tool \in ParseTools
    /\ stderr_lines \in {<<l, WellFormedLine>> : l \in DiagLines}
    /\ pidx = 0
    /\ file_errors = EmptyDict
    /\ errors = EmptyDict
    /\ errors_by_file = EmptyDict
    /\ total_by_file = EmptyDict
    /\ outcome = <<>>
    /\ CopyIdle
    /\ PatchIdle

\* fix_ts7006.py lines 8-22: one iteration over a line of result.stderr
TS7006_ParseLine ==
    /\ tool = "fix_ts7006"
    /\ pidx < Len(stderr_lines)
    /\ LET r == TS7006_Parse(stderr_lines[pidx + 1])
       IN /\ file_errors' =
                IF r.ok
                THEN DictAppend(file_errors, r.file,
                                [line |-> r.line, col |-> r.col, param |-> r.ident])
                ELSE file_errors
          /\ outcome' = Append(outcome, r)
    /\ pidx' = pidx + 1
    /\ UNCHANGED <<tool, stderr_lines, errors, errors_by_file, total_by_file, copyVars, patchVars>>

\* fix-implicit-any.py lines 19-27: one iteration over a line of result.stderr
ImplicitAny_ParseLine ==
    /\ tool = "fix-implicit-any"
    /\ pidx < Len(stderr_lines)
    /\ LET r == ImplicitAny_Parse(stderr_lines[pidx + 1])
       IN /\ errors' = IF r.ok THEN DictAppend(errors, r.file, r.ident) ELSE errors
          /\ outcome' = Append(outcome, r)
    /\ pidx' = pidx + 1
    /\ UNCHANGED <<tool, stderr_lines, file_errors, errors_by_file, total_by_file, copyVars, patchVars>>

\* analyze-errors.py lines 13-19: one iteration over a line of result.stderr
Analyze_ParseLine ==
    /\ tool = "analyze-errors"
    /\ pidx < Len(stderr_lines)
    /\ LET r == Analyze_Parse(stderr_lines[pidx + 1])
       IN /\ errors_by_file' =
                IF r.ok
                THEN [p \in DOMAIN errors_by_file \cup {r.file} |->
                        IF p = r.file
                        THEN DictIncr(IF p \in DOMAIN errors_by_file
                                      THEN errors_by_file[p] ELSE EmptyDict, r.ident)
                        ELSE errors_by_file[p]]
                ELSE errors_by_file
          /\ total_by_file' = IF r.ok THEN DictIncr(total_by_file, r.file) ELSE total_by_file
          /\ outcome' = Append(outcome, r)
    /\ pidx' = pidx + 1
    /\ UNCHANGED <<tool, stderr_lines, file_errors, errors, copyVars, patchVars>>

NextParse ==
    \/ TS7006_ParseLine
    \/ ImplicitAny_ParseLine
    \/ Analyze_ParseLine

SpecParse == InitParse /\ [][NextParse]_vars


(***************************************************************************)
(* Properties of the diagnostic parsers                                    *)
(***************************************************************************)
IsDigits(s) == Len(s) > 0 /\ \A i \in 1..Len(s) : Ch(s, i) \in Digits

\* "(<digits>,<digits>)" \o after  starts at index g of line: the indices after it
PositionGroupEnds(line, g, after) ==
    IF g < 1 \/ g > Len(line) \/ Ch(line, g) # "(" THEN {}
    ELSE {b + 1 + Len(after) :
            b \in {c \in (g + 3)..Len(line) :
                     /\ MatchAt(line, c + 1, after)
                     /\ \E a \in (g + 1)..(c - 2) :
                           /\ Ch(line, a + 1) = ","
                           /\ IsDigits(SubSeq(line, g + 1, a))
                           /\ IsDigits(SubSeq(line, a + 2, c))}}

\* the full shape  path(line,col): error TS7006: Parameter '<name>' implicitly has an 'any' type.
FullShape(line) ==
    \E g \in 2..Len(line) :
        \E h \in PositionGroupEnds(line, g, "): error TS7006: Parameter '") :
            /\ Len(line) - Len(TailTS7006) + 1 > h
            /\ MatchAt(line, Len(line) - Len(TailTS7006) + 1, TailTS7006)

\* index of the first "(" of the line (Len(line)+1 if it has none)
FirstParen(line) ==
    Min({i \in 1..Len(line) + 1 :
            (i = Len(line) + 1 \/ Ch(line, i) = "(")
            /\ \A j \in 1..(i - 1) : Ch(line, j) # "("})

Consumed == 1..Len(outcome)

FixerTools == {"fix_ts7006", "fix-implicit-any"}

\* C8: a fixer's parser produces a record for a checker output line only when the
\* line has the full shape  path(line,col): error TS7006: Parameter '<name>'
\* implicitly has an 'any' type.  Every other line produces no record, every line
\* is consumed, and a dict built from such lines only is empty.
C8_RecordOnlyForFullShape ==
    tool \in FixerTools =>
        /\ \A n \in Consumed : outcome[n].ok => FullShape(stderr_lines[n])
        /\ (\A n \in Consumed : ~FullShape(stderr_lines[n]))
              => (file_errors = EmptyDict /\ errors = EmptyDict)

\* C9 (as claimed): for every accepted line the stored path is exactly the
\* substring of the line before its first "(".
C9_PathBeforeFirstParen ==
    \A n \in Consumed :
        outcome[n].ok =>
            outcome[n].file = SubSeq(stderr_lines[n], 1, FirstParen(stderr_lines[n]) - 1)

\* C9 (amended): for every accepted line the stored path is an unchanged prefix
\* of the line, directly followed by the "(line,col): error " group; for
\* fix-implicit-any.py and analyze-errors.py that group opens at the first "(" of
\* the line, for fix_ts7006.py it is the first group followed by
\* "TS7006: Parameter '", so a path that contains parentheses is stored whole.
C9_PathBeforePositionGroup ==
    \A n \in Consumed :
        outcome[n].ok =>
            LET line == stderr_lines[n]
                g == Len(outcome[n].file) + 1
            IN /\ g >= 2
               /\ outcome[n].file = SubSeq(line, 1, g - 1)
               /\ PositionGroupEnds(line, g, "): error ") # {}
               /\ tool # "fix_ts7006" => g = FirstParen(line)
               /\ tool = "fix_ts7006" =>
                     /\ PositionGroupEnds(line, g, "): error TS7006: Parameter '") # {}
                     /\ \A e \in 2..(g - 1) :
                           PositionGroupEnds(line, e, "): error TS7006: Parameter '") = {}

\* C9 witness: fix_ts7006.py has accepted a line whose path contains a parenthesis
C9_Witness ==
    /\ tool = "fix_ts7006"
    /\ \E n \in Consumed : outcome[n].ok /\ Contains(outcome[n].file, "(")


(***************************************************************************)
(* copy-docs.py: the mirroring pass over src/expression/embeddedDocs.      *)
(* The tree holds regular, readable files only.                            *)
(***************************************************************************)
MaxFiles == 2
MaxPasses == 2

FileNames == <<"a/doc", "b/x.min", "top", "c/y">>

Paths == UNION {{FileNames[i] \o ".js", FileNames[i] \o ".ts"} : i \in 1..MaxFiles}

NoFile == [data |-> "none", meta |-> "none"]

Files == [data : {"d1", "d2"}, meta : {"m1", "m2"}]

EndsWith(s, suffix) == Len(s) >= Len(suffix) /\ MatchAt(s, Len(s) - Len(suffix) + 1, suffix)

\* the paths root.rglob("*.js") yields
Rglob_js(t) == {p \in DOMAIN t : t[p] # NoFile /\ EndsWith(p, ".js")}

\* index of the last occurrence of character c in s, 0 if none
LastIndexOf(s, c) == Max({0} \cup {i \in 1..Len(s) : Ch(s, i) = c})

\* PurePath.with_suffix: the suffix of the final component (from its last dot,
\* unless the name starts with that dot) replaced by suffix
with_suffix(p, suffix) ==
    LET nameStart == LastIndexOf(p, "/") + 1
        dot == LastIndexOf(p, ".")
    IN IF dot > nameStart /\ dot < Len(p)
       THEN SubSeq(p, 1, dot - 1) \o suffix
       ELSE p \o suffix

\* copying whether or not the target exists
ShouldCopy_Always(t, tsfile) == TRUE

\* `if not tsfile.exists()`
ShouldCopy(t, tsfile) == tsfile \notin DOMAIN t \/ t[tsfile] = NoFile

\* shutil.copy2(jsfile, tsfile): data and metadata
copy2(t, jsfile, tsfile) ==
    [p \in DOMAIN t \cup {tsfile} |-> IF p = tsfile THEN t[jsfile] ELSE t[p]]

InitCopy ==
    /\ tool = "copy-docs"
    /\ tree \in [Paths -> Files \cup {NoFile}]
    /\ tree0 = tree
    /\ pending = Rglob_js(tree)
    /\ copied = 0
    /\ pass = 1
    /\ copy_pc = "loop"
    /\ ParseIdle
    /\ PatchIdle

\* lines 9-14 for a .js file without counterpart
Copy_CopyFile(jsfile) ==
    /\ copy_pc = "loop"
    /\ jsfile \in pending
    /\ ShouldCopy(tree, with_suffix(jsfile, ".ts"))
    /\ tree' = copy2(tree, jsfile, with_suffix(jsfile, ".ts"))
    /\ copied' = copied + 1
    /\ pending' = pending \ {jsfile}
    /\ UNCHANGED <<tool, tree0, pass, copy_pc, parseVars, patchVars>>

\* lines 9-11 for a .js file whose counterpart exists
Copy_SkipExisting(jsfile) ==
    /\ copy_pc = "loop"
    /\ jsfile \in pending
    /\ ~ShouldCopy(tree, with_suffix(jsfile, ".ts"))
    /\ pending' = pending \ {jsfile}
    /\ UNCHANGED <<tool, tree, tree0, copied, pass, copy_pc, parseVars, patchVars>>

\* line 16: the loop is over, the total is printed
Copy_PrintTotal ==
    /\ copy_pc = "loop"
    /\ pending = {}
    /\ copy_pc' = "done"
    /\ UNCHANGED <<tool, tree, tree0, pending, copied, pass, parseVars, patchVars>>

\* the script is run again on the tree it left (lines 6-7)
Copy_RunAgain ==
    /\ copy_pc = "done"
    /\ pass < MaxPasses
    /\ pass' = pass + 1
    /\ copied' = 0
    /\ pending' = Rglob_js(tree)
    /\ copy_pc' = "loop"
    /\ UNCHANGED <<tool, tree, tree0, parseVars, patchVars>>

NextCopy ==
    \/ \E jsfile \in Paths : Copy_CopyFile(jsfile)
    \/ \E jsfile \in Paths : Copy_SkipExisting(jsfile)
    \/ Copy_PrintTotal
    \/ Copy_RunAgain

SpecCopy == InitCopy /\ [][NextCopy]_vars

\* the .js files of the original tree that had no .ts counterpart
Lacking == {j \in Rglob_js(tree0) : tree0[with_suffix(j, ".ts")] = NoFile}

\* C10: the pass copies a .js file to the same-named .ts path exactly when that
\* path does not exist, never overwrites or modifies an existing file, and a
\* second pass over the tree it produced copies nothing and reports 0.
C10_MirrorOnceNeverOverwrite ==
    /\ \A p \in Paths : tree0[p] # NoFile => tree[p] = tree0[p]
    /\ \A p \in Paths :
          (tree0[p] = NoFile /\ tree[p] # NoFile) =>
              \E j \in Lacking : p = with_suffix(j, ".ts") /\ tree[p] = tree0[j]
    /\ copy_pc = "done" =>
          \A j \in Lacking : tree[with_suffix(j, ".ts")] = tree0[j]
    /\ (pass = 1 /\ copy_pc = "done") => copied = Cardinality(Lacking)
    /\ pass >= 2 => copied = 0

\* C10 witness: the second pass has ended after a first pass that copied a file
\* and left alone an existing .ts file that differs from its .js file
C10_Witness ==
    /\ pass = 2
    /\ copy_pc = "done"
    /\ Lacking # {}
    /\ \E j \in Rglob_js(tree0) :
          /\ tree0[with_suffix(j, ".ts")] # NoFile
          /\ tree[with_suffix(j, ".ts")] # tree[j]


(***************************************************************************)
(* Text substitution (re.sub) and file text                                *)
(***************************************************************************)
\* in a replacement template: the last character of the match (the group [,)])
LastChar == [k |-> "last", s |-> "", cs |-> {}, p |-> <<>>]

\* the replacement text for the match s[i..e-1]
RECURSIVE Expand(_, _, _)
Expand(tmpl, s, e) ==
    IF Len(tmpl) = 0 THEN ""
    ELSE (IF Head(tmpl).k = "last" THEN Ch(s, e - 1) ELSE Head(tmpl).s)
         \o Expand(Tail(tmpl), s, e)

\* re.sub(pat, tmpl, s) from index i on: leftmost non-overlapping matches, the
\* search resuming after each match (every pattern consumes a character)
RECURSIVE ReSubFrom(_, _, _, _)
ReSubFrom(s, i, pat, tmpl) ==
    IF i > Len(s) THEN ""
    ELSE LET e == MatchSeq(s, i, pat)
         IN IF e > i
            THEN Expand(tmpl, s, e) \o ReSubFrom(s, e, pat, tmpl)
            ELSE Ch(s, i) \o ReSubFrom(s, i + 1, pat, tmpl)

ReSub(pat, tmpl, s) == ReSubFrom(s, 1, pat, tmpl)

\* text-mode read (newline=None): "\r\n" and "\r" become "\n"
RECURSIVE read_text(_)
read_text(raw) ==
    IF Len(raw) = 0 THEN ""
    ELSE IF MatchAt(raw, 1, "\r\n") THEN "\n" \o read_text(SubSeq(raw, 3, Len(raw)))
    ELSE IF Ch(raw, 1) = "\r" THEN "\n" \o read_text(SubSeq(raw, 2, Len(raw)))
    ELSE Ch(raw, 1) \o read_text(SubSeq(raw, 2, Len(raw)))

\* os.linesep of the platform the scripts run on (POSIX)
os_linesep == "\n"

\* text-mode write (newline=None): "\n" becomes os.linesep
RECURSIVE write_text(_)
write_text(text) ==
    IF Len(text) = 0 THEN ""
    ELSE (IF Ch(text, 1) = "\n" THEN os_linesep ELSE Ch(text, 1))
         \o write_text(SubSeq(text, 2, Len(text)))

\* str.splitlines(keepends) as f.readlines() does it on translated text
RECURSIVE SplitLines(_)
SplitLines(text) ==
    IF Len(text) = 0 THEN <<>>
    ELSE LET e == RunEndNot(text, 1, {"\n"})
         IN IF e > Len(text) THEN <<text>>
            ELSE <<SubSeq(text, 1, e)>> \o SplitLines(SubSeq(text, e + 1, Len(text)))

\* f.readlines()
readlines(raw) == SplitLines(read_text(raw))

(***************************************************************************)
(* fix_ts7006.py: the per-file fix (lines 35-61)                           *)
(***************************************************************************)
\* rf'\b({re.escape(param)})\b(?!\s*:)(?=\s*[,)=])'
PatternTS7006(param) ==
    <<Wb, Lit(param), Wb, NotAhead(<<Ws, Lit(":")>>), Ahead(<<Ws, OneOf({",", ")", "="})>>)>>

\* r'\1: any'
ReplacementTS7006(param) == <<Lit(param), Lit(": any")>>

\* lines 50-59: the parameters of one line, in the order reported
RECURSIVE TS7006_FixLine(_, _)
TS7006_FixLine(line, params_to_fix) ==
    IF Len(params_to_fix) = 0 THEN [line |-> line, printed |-> 0]
    ELSE LET param == Head(params_to_fix)
             new_line == ReSub(PatternTS7006(param), ReplacementTS7006(param), line)
             rest == TS7006_FixLine(new_line, Tail(params_to_fix))
         IN [line |-> rest.line,
             printed |-> rest.printed + (IF new_line # line THEN 1 ELSE 0)]

\* [e['param'] for e in errors_by_line[line_num]]
ParamsOfLine(errors_list, line_num) ==
    LET onLine == SelectSeq(errors_list, LAMBDA e : e.line = line_num)
    IN [i \in 1..Len(onLine) |-> onLine[i].param]

\* lines 41-61 for the line numbers in nums, highest first
RECURSIVE TS7006_FixLines(_, _, _)
TS7006_FixLines(lines, errors_list, nums) ==
    IF nums = {} THEN [lines |-> lines, printed |-> 0]
    ELSE LET line_num == Max(nums)
             line_idx == line_num - 1
         IN IF line_idx >= Len(lines)
            THEN TS7006_FixLines(lines, errors_list, nums \ {line_num})
            ELSE LET fixed == TS7006_FixLine(lines[line_idx + 1],
                                             ParamsOfLine(errors_list, line_num))
                     rest == TS7006_FixLines([lines EXCEPT ![line_idx + 1] = fixed.line],
                                             errors_list, nums \ {line_num})
                 IN [lines |-> rest.lines, printed |-> rest.printed + fixed.printed]

\* lines 29-61: read, group by line, fix; gives the lines to write and the messages printed
TS7006_FixFile(raw, errors_list) ==
    TS7006_FixLines(readlines(raw), errors_list,
                    {errors_list[i].line : i \in 1..Len(errors_list)})

(***************************************************************************)
(* fix-implicit-any.py: fix_file (lines 31-59).  The parameter names are   *)
(* identifiers of word characters, for which the unescaped name is a       *)
(* literal of the pattern.                                                 *)
(***************************************************************************)
\* rf'\b({param})\s*([,)])'  ->  rf'\1: any\2'
PatternParam(param) == <<Wb, Lit(param), Ws, OneOf({",", ")"})>>
ReplacementParam(param) == <<Lit(param), Lit(": any"), LastChar>>

\* rf'function\s*\(\s*({param})\s*\)'  ->  rf'function(\1: any)'
PatternFunction(param) == <<Lit("function"), Ws, Lit("("), Ws, Lit(param), Ws, Lit(")")>>
ReplacementFunction(param) == <<Lit("function("), Lit(param), Lit(": any)")>>

\* lines 42-52 for one param: the first pattern that changes the content wins
ImplicitAny_FixParam(content, param) ==
    LET c1 == ReSub(PatternParam(param), ReplacementParam(param), content)
        c2 == ReSub(PatternFunction(param), ReplacementFunction(param), content)
    IN IF c1 # content THEN [content |-> c1, fixed |-> 1]
       ELSE IF c2 # content THEN [content |-> c2, fixed |-> 1]
       ELSE [content |-> content, fixed |-> 0]

\* lines 39-52: for param in param_names
RECURSIVE ImplicitAny_FixParams(_, _)
ImplicitAny_FixParams(content, param_names) ==
    IF Len(param_names) = 0 THEN [content |-> content, fixed |-> 0]
    ELSE LET one == ImplicitAny_FixParam(content, Head(param_names))
             rest == ImplicitAny_FixParams(one.content, Tail(param_names))
         IN [content |-> rest.content, fixed |-> rest.fixed + one.fixed]

\* fix_file up to the write: the new content and the value it would return
fix_file(raw, param_names) ==
    LET original == read_text(raw)
        r == ImplicitAny_FixParams(original, param_names)
    IN [original |-> original,
        content |-> r.content,
        fixed |-> IF r.content # original THEN r.fixed ELSE 0]

(***************************************************************************)
(* fix-factory-params.py: fix_factory_params (lines 9-29)                  *)
(***************************************************************************)
\* r'}\s*:\s*MathJsStatic\s*\)\s*=>' and the same for MathJsInstance
PatternFactory(iface) == <<Lit("}"), Ws, Lit(":"), Ws, Lit(iface), Ws, Lit(")"), Ws, Lit("=>")>>

\* r'\(\{\s*typed\s*\}\s*:\s*\{\s*typed:\s*TypedFunction\s*\}\)'
PatternTyped ==
    <<Lit("({"), Ws, Lit("typed"), Ws, Lit("}"), Ws, Lit(":"), Ws, Lit("{"), Ws,
      Lit("typed:"), Ws, Lit("TypedFunction"), Ws, Lit("})")>>

\* lines 11-23: the content after the three substitutions
fix_factory_params(raw) ==
    LET original == read_text(raw)
        c1 == ReSub(PatternFactory("MathJsStatic"), <<Lit("}: any) =>")>>, original)
        c2 == ReSub(PatternFactory("MathJsInstance"), <<Lit("}: any) =>")>>, c1)
        c3 == ReSub(PatternTyped, <<Lit("({ typed }: any)")>>, c2)
    IN [original |-> original, content |-> c3]


(***************************************************************************)
(* The fix runs.  Inputs: either one file with a varied text and up to     *)
(* MaxDiags diagnostics, or a batch of two files with short texts whose    *)
(* open() may raise.                                                       *)
(***************************************************************************)
MaxPatchChunks == 3
MaxBatchChunks == 2
MaxDiags == 2
MaxLine == 2
MaxRuns == 2

\* list(errors.items())[:20]
MaxFilesPerRun == 20

PatchChunks == {"function(x)", "x", "any", ",", "\n"}

BatchChunks == {"function(x)", "\n", "}: MathJsStatic) =>"}

ParamNames == {"x", "any"}

AllPaths == <<"a.ts", "b.ts">>

FixTools == {"fix_ts7006", "fix-implicit-any", "fix-factory-params"}

Diagnostic == [line : 1..MaxLine, col : {1}, param : ParamNames]

DiagLists == UNION {[1..n -> Diagnostic] : n \in 1..MaxDiags}

\* param is an identifier of the line
OccursOn(line, param) ==
    \E i \in 1..Len(line) : MatchSeq(line, i, <<Wb, Lit(param), Wb>>) # 0

\* what tsc can have reported for a file with text raw: each diagnostic names an
\* identifier of the line it refers to
Reportable(raw, errors_list) ==
    \A i \in 1..Len(errors_list) :
        /\ errors_list[i].line <= Len(readlines(raw))
        /\ OccursOn(readlines(raw)[errors_list[i].line], errors_list[i].param)

\* the param_names of fix-implicit-any.py: the names in the order reported
ParamsOf(errors_list) == [i \in 1..Len(errors_list) |-> errors_list[i].param]

\* sorted(file_errors.items()): by path
SortedPaths(S) == SelectSeq(AllPaths, LAMBDA f : f \in S)

Take(seq, n) == SubSeq(seq, 1, IF Len(seq) < n THEN Len(seq) ELSE n)

\* the orders in which a dict / argv may hold the paths of S
Orderings(S) ==
    {o \in UNION {[1..n -> S] : n \in {Cardinality(S)}} :
        \A i, j \in 1..Len(o) : i # j => o[i] # o[j]}

\* the path list of the fix loop of each script
LoopFiles(t, fe, er, argv) ==
    CASE t = "fix_ts7006" -> SortedPaths(DOMAIN fe)
      [] t = "fix-implicit-any" -> Take(SelectSeq(argv, LAMBDA f : f \in DOMAIN er), MaxFilesPerRun)
      [] t = "fix-factory-params" -> argv

InitFixCommon ==
    /\ disk0 = disk
    /\ file_errors = IF tool = "fix_ts7006" THEN diagnostics ELSE EmptyDict
    /\ errors = IF tool = "fix-implicit-any"
                THEN [f \in DOMAIN diagnostics |-> ParamsOf(diagnostics[f])]
                ELSE EmptyDict
    /\ files \in {LoopFiles(tool, file_errors, errors, o) : o \in Orderings(DOMAIN disk)}
    /\ todo = files
    /\ pc = "fix"
    /\ run = 1
    /\ printed = 0
    /\ total_fixed = 0
    /\ fixed_count = 0
    /\ opened_w = {}
    /\ io_failed = {}
    /\ stderr_lines = <<>>
    /\ pidx = 0
    /\ errors_by_file = EmptyDict
    /\ total_by_file = EmptyDict
    /\ outcome = <<>>
    /\ CopyIdle

InitOneFile ==
    /\ tool \in {"fix_ts7006", "fix-implicit-any"}
    /\ disk \in [{"a.ts"} -> ChunkTexts(PatchChunks, MaxPatchChunks)]
    /\ diagnostics \in [{"a.ts"} -> {el \in DiagLists : Reportable(disk["a.ts"], el)}]
    /\ unreadable = {}
    /\ unwritable = {}
    /\ InitFixCommon

InitBatch ==
    /\ tool \in FixTools
    /\ disk \in [{"a.ts", "b.ts"} -> ChunkTexts(BatchChunks, MaxBatchChunks)]
    /\ diagnostics \in
          IF tool = "fix-factory-params" THEN {EmptyDict}
          ELSE {dg \in [{"a.ts", "b.ts"} -> {el \in DiagLists : Len(el) = 1}] :
                  \A f \in DOMAIN dg : Reportable(disk[f], dg[f])}
    /\ unreadable \in SUBSET {"a.ts", "b.ts"}
    /\ unwritable \in SUBSET {"a.ts", "b.ts"}
    /\ InitFixCommon

InitFix == InitOneFile \/ InitBatch

fixFrame == <<tool, parseVars, copyVars, disk0, diagnostics, files, unreadable, unwritable>>

\* fix_ts7006.py lines 25-69: one iteration of the per-file loop
TS7006_FixNextFile ==
    /\ tool = "fix_ts7006"
    /\ pc = "fix"
    /\ Len(todo) > 0
    /\ LET file_path == Head(todo)
           r == TS7006_FixFile(disk[file_path], file_errors[file_path])
       IN IF file_path \in unreadable
          THEN \* lines 31-33: report, continue
               /\ io_failed' = io_failed \cup {file_path}
               /\ UNCHANGED <<disk, printed, opened_w>>
          ELSE /\ printed' = printed + r.printed
               /\ IF file_path \in unwritable
                  THEN \* lines 68-69: report
                       /\ io_failed' = io_failed \cup {file_path}
                       /\ UNCHANGED <<disk, opened_w>>
                  ELSE \* lines 65-66: open(.., 'w', newline=''), writelines
                       /\ disk' = [disk EXCEPT ![file_path] = Concat(r.lines)]
                       /\ opened_w' = opened_w \cup {file_path}
                       /\ UNCHANGED io_failed
    /\ todo' = Tail(todo)
    /\ UNCHANGED <<fixFrame, pc, run, total_fixed, fixed_count>>

\* fix_ts7006.py lines 71-75: the loop is over, the re-check is printed
TS7006_Recheck ==
    /\ tool = "fix_ts7006"
    /\ pc = "fix"
    /\ Len(todo) = 0
    /\ pc' = "done"
    /\ UNCHANGED <<fixFrame, disk, todo, run, printed, total_fixed, fixed_count,
                   opened_w, io_failed>>

\* fix-implicit-any.py lines 68-72 with fix_file: one iteration; an exception
\* of open() is not caught and ends the script
ImplicitAny_FixNextFile ==
    /\ tool = "fix-implicit-any"
    /\ pc = "fix"
    /\ Len(todo) > 0
    /\ LET file_path == Head(todo)
           r == fix_file(disk[file_path], errors[file_path])
       IN IF file_path \in unreadable \/ (r.content # r.original /\ file_path \in unwritable)
          THEN /\ pc' = "crashed"
               /\ io_failed' = io_failed \cup {file_path}
               /\ UNCHANGED <<disk, todo, total_fixed, opened_w>>
          ELSE /\ IF r.content # r.original
                  THEN /\ disk' = [disk EXCEPT ![file_path] = write_text(r.content)]
                       /\ opened_w' = opened_w \cup {file_path}
                  ELSE UNCHANGED <<disk, opened_w>>
               /\ total_fixed' = IF r.fixed > 0 THEN total_fixed + r.fixed ELSE total_fixed
               /\ todo' = Tail(todo)
               /\ UNCHANGED <<pc, io_failed>>
    /\ UNCHANGED <<fixFrame, run, printed, fixed_count>>

\* fix-implicit-any.py line 74
ImplicitAny_PrintTotal ==
    /\ tool = "fix-implicit-any"
    /\ pc = "fix"
    /\ Len(todo) = 0
    /\ pc' = "done"
    /\ UNCHANGED <<fixFrame, disk, todo, run, printed, total_fixed, fixed_count,
                   opened_w, io_failed>>

\* fix-factory-params.py lines 39-42 with fix_factory_params: one iteration
Factory_FixNextFile ==
    /\ tool = "fix-factory-params"
    /\ pc = "fix"
    /\ Len(todo) > 0
    /\ LET file_path == Head(todo)
           r == fix_factory_params(disk[file_path])
       IN IF file_path \in unreadable \/ (r.content # r.original /\ file_path \in unwritable)
          THEN /\ pc' = "crashed"
               /\ io_failed' = io_failed \cup {file_path}
               /\ UNCHANGED <<disk, todo, fixed_count, opened_w>>
          ELSE /\ IF r.content # r.original
                  THEN /\ disk' = [disk EXCEPT ![file_path] = write_text(r.content)]
                       /\ opened_w' = opened_w \cup {file_path}
                       /\ fixed_count' = fixed_count + 1
                  ELSE UNCHANGED <<disk, opened_w, fixed_count>>
               /\ todo' = Tail(todo)
               /\ UNCHANGED <<pc, io_failed>>
    /\ UNCHANGED <<fixFrame, run, printed, total_fixed>>

\* fix-factory-params.py line 44
Factory_PrintTotal ==
    /\ tool = "fix-factory-params"
    /\ pc = "fix"
    /\ Len(todo) = 0
    /\ pc' = "done"
    /\ UNCHANGED <<fixFrame, disk, todo, run, printed, total_fixed, fixed_count,
                   opened_w, io_failed>>

\* the script is started again with the same diagnostics / arguments
Fix_RunAgain ==
    /\ pc = "done"
    /\ run < MaxRuns
    /\ run' = run + 1
    /\ todo' = files
    /\ pc' = "fix"
    /\ printed' = 0
    /\ total_fixed' = 0
    /\ fixed_count' = 0
    /\ opened_w' = {}
    /\ UNCHANGED <<fixFrame, disk, io_failed>>

NextFix ==
    \/ TS7006_FixNextFile
    \/ TS7006_Recheck
    \/ ImplicitAny_FixNextFile
    \/ ImplicitAny_PrintTotal
    \/ Factory_FixNextFile
    \/ Factory_PrintTotal
    \/ Fix_RunAgain

SpecFix == InitFix /\ [][NextFix]_vars


(***************************************************************************)
(* Properties of the fix runs                                              *)
(***************************************************************************)
Range(seq) == {seq[i] : i \in 1..Len(seq)}

\* the files the loop of this run has gone through without an open() failure
Processed == (Range(files) \ Range(todo)) \ io_failed

NumLines(text) == Len(SplitLines(text))

\* the line numbers the diagnostics of file f refer to
Referenced(f) == {diagnostics[f][i].line : i \in 1..Len(diagnostics[f])}

Reverse(seq) == [i \in 1..Len(seq) |-> seq[Len(seq) + 1 - i]]

\* the text a script leaves in a file with text raw and diagnostics errors_list
\* when nothing fails
PatchedText(t, raw, errors_list) ==
    CASE t = "fix_ts7006" -> Concat(TS7006_FixFile(raw, errors_list).lines)
      [] t = "fix-implicit-any" ->
           LET r == fix_file(raw, ParamsOf(errors_list))
           IN IF r.content # r.original THEN write_text(r.content) ELSE raw
      [] t = "fix-factory-params" ->
           LET r == fix_factory_params(raw)
           IN IF r.content # r.original THEN write_text(r.content) ELSE raw

DiagnosticsOf(f) == IF f \in DOMAIN diagnostics THEN diagnostics[f] ELSE <<>>

\* C1: running the patch a second time with the same diagnostics on the
\* already-patched text produces no further edit
C1_SecondRunNoEdit ==
    [][(tool \in FixerTools /\ run = 2 /\ io_failed = {}) => disk' = disk]_vars

\* C2: a processed file is opened for writing if and only if an edit changed
\* its content
C2_WrittenIffChanged ==
    run = 1 => \A f \in Processed : f \in opened_w <=> disk[f] # disk0[f]

\* C3: after an implicit-any patch every line whose number no diagnostic of the
\* file refers to is identical to the original line of that number
C3_UnreferencedLinesUntouched ==
    (tool \in FixerTools /\ run = 1) =>
        \A f \in Processed :
            \A n \in 1..NumLines(disk0[f]) :
                n \notin Referenced(f) =>
                    /\ n <= NumLines(disk[f])
                    /\ SplitLines(disk[f])[n] = SplitLines(disk0[f])[n]

\* C4: the annotation-injection edits leave the number of lines of a file unchanged
C4_LineCountPreserved ==
    tool \in FixerTools =>
        \A f \in DOMAIN disk : NumLines(disk[f]) = NumLines(disk0[f])

\* C5: for a line carrying diagnostics for two distinct parameters, applying
\* the two edits in either order gives the same line
C5_OrderIndependent ==
    (tool \in FixerTools /\ run = 1 /\ pc = "done" /\ io_failed = {}) =>
        \A f \in DOMAIN diagnostics :
            (/\ Len(diagnostics[f]) = 2
             /\ diagnostics[f][1].line = diagnostics[f][2].line
             /\ diagnostics[f][1].param # diagnostics[f][2].param)
            => disk[f] = PatchedText(tool, disk0[f], Reverse(diagnostics[f]))

\* the counts the run reports: fix_ts7006.py prints one "Line n: param" per
\* fixed parameter, fix-implicit-any.py prints total_fixed; no script reports
\* a count of parameters left unfixed
ReportedCounts == IF tool = "fix_ts7006" THEN printed ELSE total_fixed

NumDiagnostics ==
    LET RECURSIVE Sum(_)
        Sum(S) == IF S = {} THEN 0
                  ELSE LET f == CHOOSE g \in S : TRUE
                       IN Len(diagnostics[f]) + Sum(S \ {f})
    IN Sum(DOMAIN diagnostics)

\* C6: at the end of a run every diagnostic is reflected in one of the counts
\* the run reports (fixed + unfixed = number of diagnostics)
C6_AllDiagnosticsCounted ==
    (tool \in FixerTools /\ run = 1 /\ pc = "done" /\ io_failed = {}) =>
        ReportedCounts = NumDiagnostics

\* C7: a file that cannot be read or written is left unmodified, and every
\* other file of the batch is patched as if the failing file were absent
C7_FailureDoesNotStopBatch ==
    (run = 1 /\ pc \in {"done", "crashed"}) =>
        \A f \in DOMAIN disk :
            disk[f] = IF f \in io_failed THEN disk0[f]
                      ELSE PatchedText(tool, disk0[f], DiagnosticsOf(f))

=============================================================================
